---- MODULE Spec2Model ----
(***************************************************************************)
(* A model of bedrock/contentful/api.py: the locale mapper, the style and  *)
(* image helpers, and the ContentfulPage extraction methods that flatten   *)
(* Contentful entries into template dictionaries.                          *)
(*                                                                         *)
(* Python values are modelled as follows.  A dict is a TLA+ record (a      *)
(* function on its keys), a list is a sequence, a str is a string, None is *)
(* the value None below, and a reference to an entry is the entry's id.    *)
(* A call of a method yields an effect record                              *)
(*     [raised, value, fetched, rendered]                                  *)
(* raised   : TRUE when the call ends by raising an exception,             *)
(* value    : the returned object, or the exception's name when raised,    *)
(* fetched  : the ids handed to the CMS client, in call order,             *)
(* rendered : the documents handed to the rich-text renderer, in order.    *)
(*                                                                         *)
(* The CMS content is schema-valid: required references (images, the       *)
(* `content` sequences, the callout and large-card references, the preview *)
(* title and blurb) are present; optional fields (body, cta, theme,        *)
(* product_icon, slug, preview_image, tag, link) may be absent.            *)
(***************************************************************************)
EXTENDS Integers, Sequences, FiniteSets, TLC

VARIABLES cms, op, args, result

vars == <<cms, op, args, result>>

\* ------------------------------------------------------------------ bounds
MaxWidth == 24
MaxCards == 2

\* ------------------------------------------------------- python primitives
None == "<None>"

\* dict.get(key) with the default None
Get(d, key) == IF key \in DOMAIN d THEN d[key] ELSE None

\* dict.get(key, default)
GetOr(d, key, default) == IF key \in DOMAIN d THEN d[key] ELSE default

\* truth value of an optional reference or rich-text document
Truthy(v) == v # None

\* str.startswith
startswith(s, prefix) ==
    /\ Len(s) >= Len(prefix)
    /\ SubSeq(s, 1, Len(prefix)) = prefix

PyRoundHalfUp(num, den) ==
    LET q == num \div den
        r == num % den
    IN  IF 2 * r >= den THEN q + 1 ELSE q

\* the builtin round() of num/den, den > 0: nearest integer, ties to even
PyRound(num, den) ==
    LET q == num \div den
        r == num % den
    IN  IF 2 * r > den THEN q + 1
        ELSE IF 2 * r < den THEN q
        ELSE IF q % 2 = 0 THEN q ELSE q + 1

Return(v, f, r) == [raised |-> FALSE, value |-> v, fetched |-> f, rendered |-> r]

Raise(e, f, r) == [raised |-> TRUE, value |-> e, fetched |-> f, rendered |-> r]

\* ------------------------------------------------------------ module tables
LOCALE_MAP == [de |-> "de-DE"]

ASPECT_RATIOS == ("1:1" :> "1-1") @@ ("3:2" :> "3-2") @@ ("16:9" :> "16-9")

\* the float multipliers 1, 0.6666 and 0.5625 as exact ratios over MultiplierScale
MultiplierScale == 10000

ASPECT_MULTIPLIER == ("1:1" :> 10000) @@ ("3:2" :> 6666) @@ ("16:9" :> 5625)

PRODUCT_THEMES ==
    ("Firefox" :> "firefox") @@ ("Firefox Beta" :> "beta") @@
    ("Firefox Developer" :> "developer") @@ ("Firefox Nightly" :> "nightly")

WIDTHS ==
    ("Extra Small" :> "xs") @@ ("Small" :> "sm") @@ ("Medium" :> "md") @@
    ("Large" :> "lg") @@ ("Extra Large" :> "xl")

LAYOUT_CLASS ==
    ("layout2Cards" :> "mzp-l-card-half") @@
    ("layout3Cards" :> "mzp-l-card-third") @@
    ("layout4Cards" :> "mzp-l-card-quarter") @@
    ("layout5Cards" :> "mzp-l-card-hero")

CARD_WIDTH == 800

LARGE_CARD_WIDTH == 1860

\* ------------------------------------------------------------ pure helpers
contentful_locale_lookup_only(locale) == GetOr(LOCALE_MAP, locale, locale)

contentful_locale(locale) ==
    IF startswith(locale, "es-") THEN "es"
    ELSE GetOr(LOCALE_MAP, locale, locale)

_get_height(width, aspect) ==
    PyRound(width * GetOr(ASPECT_MULTIPLIER, aspect, 0), MultiplierScale)

\* image.url(**kwargs) of the CMS asset: the asset's scheme-less url with the
\* keyword arguments as its query
image_url(image, w, h, fit, f) ==
    [base |-> image, w |-> w, h |-> h, fit |-> fit, f |-> f]

_get_image_url(image, width, aspect) ==
    [prefix |-> "https:",
     url |-> image_url(image, width, _get_height(width, aspect), "fill", "faces")]

_get_product_class(product) == "mzp-t-product-" \o GetOr(PRODUCT_THEMES, product, "")

_get_layout_class(layout) == GetOr(LAYOUT_CLASS, layout, "")

_get_abbr_from_width(width) == GetOr(WIDTHS, width, "")

_get_aspect_ratio_class(aspect_ratio) ==
    "mzp-has-aspect-" \o GetOr(ASPECT_RATIOS, aspect_ratio, "")

_get_width_class(width) ==
    LET width_abbr == _get_abbr_from_width(width)
    IN  "mzp-t-content-" \o width_abbr

_get_theme_class_truthy(theme) == IF theme # None THEN "mzp-t-dark" ELSE ""

_get_theme_class(theme) == IF theme = "Dark" THEN "mzp-t-dark" ELSE ""

\* ------------------------------------------------------------- CMS content
\* An entry of the CMS: Entry.id, Entry.sys['content_type'].id, Entry.fields()
MkEntry(id, content_type, fields) ==
    [id |-> id, content_type |-> content_type, fields |-> fields]

CardIds == {"card1", "card2", "card3"}

LayoutTags == {"layout2Cards", "layout3Cards", "layout4Cards", "layout5Cards"}

LayoutAspects == {"3:2", "4:3"}

\* card reference sequences of length 0..n
RECURSIVE CardSeqs(_)
CardSeqs(n) ==
    IF n = 0 THEN {<<>>}
    ELSE LET shorter == CardSeqs(n - 1)
         IN  shorter \cup
             {Append(s, c) : s \in {t \in shorter : Len(t) = n - 1}, c \in CardIds}

FixedEntries ==
    ("cta1" :> MkEntry("cta1", "componentCtaButton",
        [label |-> "Download", action |-> "/firefox/new/"])) @@
    ("card1" :> MkEntry("card1", "componentCard",
        [heading |-> "Card one", tag |-> "Video", link |-> "/one/",
         body |-> "docCardOne", image |-> "//images.ctfassets.net/card1.jpg"])) @@
    ("card2" :> MkEntry("card2", "componentCard",
        [heading |-> "Card two", image |-> "//images.ctfassets.net/card2.jpg"])) @@
    ("card3" :> MkEntry("card3", "componentCard",
        [heading |-> "Card three", link |-> "/three/", body |-> None,
         image |-> "//images.ctfassets.net/card3.jpg"])) @@
    ("largeCard1" :> MkEntry("largeCard1", "componentLargeCard",
        [image |-> "//images.ctfassets.net/large1.jpg", card |-> "card3"])) @@
    ("hero1" :> MkEntry("hero1", "componentHero",
        [heading |-> "Hero one", tagline |-> "Fast", body |-> "docHeroOne",
         theme |-> "Dark", product_icon |-> "Firefox", image_position |-> "Left",
         image |-> "//images.ctfassets.net/hero1.jpg", cta |-> "cta1"])) @@
    ("hero2" :> MkEntry("hero2", "componentHero",
        [heading |-> "Hero two", image |-> "//images.ctfassets.net/hero2.jpg"])) @@
    ("heading1" :> MkEntry("heading1", "componentSectionHeading",
        [heading |-> "Section"])) @@
    ("callout1" :> MkEntry("callout1", "layoutCallout",
        [theme |-> "Dark", component_callout |-> "calloutContent1"])) @@
    ("calloutContent1" :> MkEntry("calloutContent1", "componentCallout",
        [heading |-> "Callout one", body |-> "docCalloutOne",
         product_icon |-> "Firefox Beta", cta |-> "cta1"])) @@
    ("callout2" :> MkEntry("callout2", "layoutCallout",
        [component_callout |-> "calloutContent2"])) @@
    ("calloutContent2" :> MkEntry("calloutContent2", "componentCallout",
        [heading |-> "Callout two"])) @@
    ("home1" :> MkEntry("home1", "pageHome",
        [preview_title |-> "Home", preview_blurb |-> "Welcome",
         content |-> <<"hero1", "layout1">>])) @@
    ("vers1" :> MkEntry("vers1", "pageVersatile",
        [preview_title |-> "Versatile", preview_blurb |-> "About", slug |-> "about",
         preview_image |-> "//images.ctfassets.net/vers1.jpg",
         content |-> <<"hero1", "heading1", "callout1">>])) @@
    ("general1" :> MkEntry("general1", "pageGeneral",
        [preview_title |-> "General", preview_blurb |-> "Terms", slug |-> "terms",
         component_hero |-> "hero1", body |-> "docPageBody",
         layout_callout |-> "callout2"])) @@
    ("vers2" :> MkEntry("vers2", "pageVersatile",
        [preview_title |-> "Second", preview_blurb |-> "More",
         content |-> <<"callout2", "layout1", "hero1">>])) @@
    ("legacy1" :> MkEntry("legacy1", "pageLegacy",
        [preview_title |-> "Legacy", preview_blurb |-> "Old", slug |-> "old",
         content |-> <<"hero1", "callout1">>]))

\* the card layout entry, whose tag, aspect ratio and cards vary
LayoutEntry(tag, aspect, cards) ==
    MkEntry("layout1", tag,
        [aspect_ratio |-> aspect, content |-> cards, large_card |-> "largeCard1"])

\* the order in which the CMS lists entries
EntryOrder ==
    <<"home1", "vers1", "general1", "legacy1", "vers2", "hero1", "hero2", "heading1",
      "callout1", "calloutContent1", "callout2", "calloutContent2", "layout1",
      "largeCard1", "card1", "card2", "card3", "cta1">>

PageIds == {"home1", "vers1", "general1", "legacy1", "vers2"}

\* the order of the keys of a fields mapping
FieldOrder ==
    <<"preview_title", "preview_blurb", "slug", "preview_image", "component_hero",
      "body", "layout_callout", "content">>

\* ------------------------------------------------------------- collaborators
\* client.entry(id, query)
client_entry(entry_id) == cms[entry_id]

\* client.entries({'content_type': tag}): the ids of the entries of that type
client_entries(content_type) ==
    SelectSeq(EntryOrder, LAMBDA id : cms[id].content_type = content_type)

\* RichTextRenderer.render(document) on a document
render(document) == "<p>" \o document \o "</p>"

\* rendering the null document is a renderer failure
render_fails(document) == document = None

RECURSIVE Flatten(_)
Flatten(seqs) == IF seqs = <<>> THEN <<>> ELSE Head(seqs) \o Flatten(Tail(seqs))

\* ---------------------------------------------------------- ContentfulPage
get_info_data_empty_slug(fields) ==
    LET info_data ==
            [title |-> fields["preview_title"],
             blurb |-> fields["preview_blurb"],
             slug |-> GetOr(fields, "slug", "")]
    IN  IF "preview_image" \in DOMAIN fields
        THEN info_data @@ [image |-> "https:" \o fields["preview_image"]]
        ELSE info_data

get_info_data(fields) ==
    LET info_data ==
            [title |-> fields["preview_title"],
             blurb |-> fields["preview_blurb"],
             slug |-> GetOr(fields, "slug", "home")]
    IN  IF "preview_image" \in DOMAIN fields
        THEN info_data @@ [image |-> "https:" \o fields["preview_image"]]
        ELSE info_data

get_page_data(page_id) ==
    LET page == client_entry(page_id)
        fields == page.fields
        page_data ==
            [page_type |-> page.content_type,
             info |-> get_info_data(fields),
             fields |-> fields]
    IN  Return(page_data, <<page_id>>, <<>>)

get_all_page_data ==
    LET pages == client_entries("pageVersatile")
        each == [i \in 1..Len(pages) |-> get_page_data(pages[i])]
    IN  Return([i \in 1..Len(pages) |-> each[i].value],
               Flatten([i \in 1..Len(pages) |-> each[i].fetched]), <<>>)

get_entry_data(page_id) == Return(client_entry(page_id), <<page_id>>, <<>>)

get_page_type(page_id) ==
    LET page_obj == client_entry(page_id)
    IN  Return(page_obj.content_type, <<page_id>>, <<>>)

get_entry_by_id(entry_id) == Return(client_entry(entry_id), <<entry_id>>, <<>>)

get_text_data(value) ==
    IF render_fails(value) THEN Raise("RenderError", <<>>, <<value>>)
    ELSE Return([component |-> "text",
                 body |-> render(value),
                 width_class |-> _get_width_class("Medium")],
                <<>>, <<value>>)

get_cta_data_styled_when_absent(cta) ==
    IF Truthy(cta)
    THEN LET cta_obj == client_entry(cta)
         IN  Return([component |-> cta_obj.content_type,
                     label |-> Get(cta_obj.fields, "label"),
                     action |-> Get(cta_obj.fields, "action"),
                     size |-> "mzp-t-xl",
                     theme |-> "mzp-t-primary",
                     include_cta |-> TRUE],
                    <<cta>>, <<>>)
    ELSE Return([size |-> "mzp-t-xl", theme |-> "mzp-t-primary", include_cta |-> FALSE],
                <<>>, <<>>)

get_cta_data(cta) ==
    IF Truthy(cta)
    THEN LET cta_id == cta
             cta_obj == get_entry_by_id(cta_id).value
             cta_fields == cta_obj.fields
         IN  Return([component |-> cta_obj.content_type,
                     label |-> Get(cta_fields, "label"),
                     action |-> Get(cta_fields, "action"),
                     size |-> "mzp-t-xl",
                     theme |-> "mzp-t-primary",
                     include_cta |-> TRUE],
                    <<cta_id>>, <<>>)
    ELSE Return([include_cta |-> FALSE], <<>>, <<>>)

get_hero_data(hero_id) ==
    LET hero_obj == get_entry_by_id(hero_id).value
        fields == hero_obj.fields
        hero_image_url == fields["image"]
        hero_reverse == Get(fields, "image_position")
        body == Get(fields, "body")
        cta == get_cta_data(Get(fields, "cta"))
    IN  IF render_fails(body) THEN Raise("RenderError", <<hero_id>>, <<body>>)
        ELSE Return([component |-> "hero",
                     theme_class |-> _get_theme_class(Get(fields, "theme")),
                     product_class |-> _get_product_class(Get(fields, "product_icon")),
                     title |-> Get(fields, "heading"),
                     tagline |-> Get(fields, "tagline"),
                     body |-> render(body),
                     image |-> "https:" \o hero_image_url,
                     image_position |-> Get(fields, "image_position"),
                     image_class |-> IF hero_reverse = "Left" THEN "mzp-l-reverse" ELSE "",
                     cta |-> cta.value],
                    <<hero_id>> \o cta.fetched, <<body>>)

get_section_heading_data(heading_id) ==
    LET heading_obj == get_entry_by_id(heading_id).value
        fields == heading_obj.fields
    IN  Return([component |-> "sectionHeading", heading |-> Get(fields, "heading")],
               <<heading_id>>, <<>>)

get_callout_data_unguarded(callout_id) ==
    LET config_fields == client_entry(callout_id).fields
        content_id == Get(config_fields, "component_callout")
        content_fields == client_entry(content_id).fields
        body == Get(content_fields, "body")
        cta == get_cta_data(Get(content_fields, "cta"))
    IN  IF render_fails(body)
        THEN Raise("RenderError", <<callout_id, content_id>>, <<body>>)
        ELSE Return([component |-> "callout",
                     theme_class |-> _get_theme_class(Get(config_fields, "theme")),
                     product_class |->
                         _get_product_class(Get(content_fields, "product_icon")),
                     title |-> Get(content_fields, "heading"),
                     body |-> render(body),
                     cta |-> cta.value],
                    <<callout_id, content_id>> \o cta.fetched, <<body>>)

get_callout_data(callout_id) ==
    LET config_obj == get_entry_by_id(callout_id).value
        config_fields == config_obj.fields
        content_id == Get(config_fields, "component_callout")
        content_obj == get_entry_by_id(content_id).value
        content_fields == content_obj.fields
        body == Get(content_fields, "body")
        content_body == IF Truthy(body) THEN render(body) ELSE ""
        cta == get_cta_data(Get(content_fields, "cta"))
    IN  Return([component |-> "callout",
                theme_class |-> _get_theme_class(Get(config_fields, "theme")),
                product_class |-> _get_product_class(Get(content_fields, "product_icon")),
                title |-> Get(content_fields, "heading"),
                body |-> content_body,
                cta |-> cta.value],
               <<callout_id, content_id>> \o cta.fetched,
               IF Truthy(body) THEN <<body>> ELSE <<>>)

get_card_data(card_id, aspect_ratio) ==
    LET card_obj == get_entry_by_id(card_id).value
        card_fields == card_obj.fields
        body == Get(card_fields, "body")
        card_body == IF Truthy(body) THEN render(body) ELSE ""
        card_image == Get(card_fields, "image")
        highres_image_url == _get_image_url(card_image, CARD_WIDTH, aspect_ratio)
        image_url_ == _get_image_url(card_image, CARD_WIDTH, aspect_ratio)
    IN  Return([component |-> "card",
                heading |-> Get(card_fields, "heading"),
                tag |-> Get(card_fields, "tag"),
                link |-> Get(card_fields, "link"),
                body |-> card_body,
                aspect_ratio |-> _get_aspect_ratio_class(aspect_ratio),
                highres_image_url |-> highres_image_url,
                image_url |-> image_url_],
               <<card_id>>,
               IF Truthy(body) THEN <<body>> ELSE <<>>)

get_large_card_data_camel_case(card_layout_id, card_id) ==
    LET large_card_image == Get(client_entry(card_layout_id).fields, "image")
        image_url_ == _get_image_url(large_card_image, LARGE_CARD_WIDTH, "16:9")
        card_data == get_card_data(card_id, "16:9")
    IN  Return([card_data.value EXCEPT !.component = "largeCard",
                                       !.highres_image_url = image_url_,
                                       !.image_url = image_url_],
               <<card_layout_id>> \o card_data.fetched, card_data.rendered)

get_large_card_data(card_layout_id, card_id) ==
    LET large_card_layout == get_entry_by_id(card_layout_id).value
        large_card_fields == large_card_layout.fields
        large_card_image == Get(large_card_fields, "image")
        highres_image_url == _get_image_url(large_card_image, LARGE_CARD_WIDTH, "16:9")
        image_url_ == _get_image_url(large_card_image, LARGE_CARD_WIDTH, "16:9")
        card_data == get_card_data(card_id, "16:9")
    IN  Return([card_data.value EXCEPT !.component = "large_card",
                                       !.highres_image_url = highres_image_url,
                                       !.image_url = image_url_],
               <<card_layout_id>> \o card_data.fetched, card_data.rendered)

get_card_layout_data_large_last(layout_id) ==
    LET config_obj == client_entry(layout_id)
        config_fields == config_obj.fields
        aspect_ratio == Get(config_fields, "aspect_ratio")
        layout == config_obj.content_type
        card_layout_id == Get(config_fields, "large_card")
        card_id == Get(client_entry(card_layout_id).fields, "card")
        large == IF layout = "layout5Cards"
                 THEN <<get_large_card_data(card_layout_id, card_id)>>
                 ELSE <<>>
        cards == Get(config_fields, "content")
        rest == [i \in 1..Len(cards) |-> get_card_data(cards[i], aspect_ratio)]
        all == rest \o large
    IN  Return([component |-> "cardLayout",
                layout_class |-> _get_layout_class(layout),
                aspect_ratio |-> aspect_ratio,
                cards |-> [i \in 1..Len(all) |-> all[i].value]],
               <<layout_id>> \o Flatten([i \in 1..Len(all) |-> all[i].fetched]),
               Flatten([i \in 1..Len(all) |-> all[i].rendered]))

get_card_layout_data(layout_id) ==
    LET config_obj == get_entry_by_id(layout_id).value
        config_fields == config_obj.fields
        aspect_ratio == Get(config_fields, "aspect_ratio")
        layout == config_obj.content_type
        card_layout_id == Get(config_fields, "large_card")
        card_id == Get(client_entry(card_layout_id).fields, "card")
        large == IF layout = "layout5Cards"
                 THEN <<get_large_card_data(card_layout_id, card_id)>>
                 ELSE <<>>
        cards == Get(config_fields, "content")
        rest == [i \in 1..Len(cards) |-> get_card_data(cards[i], aspect_ratio)]
        all == large \o rest
    IN  Return([component |-> "cardLayout",
                layout_class |-> _get_layout_class(layout),
                aspect_ratio |-> aspect_ratio,
                cards |-> [i \in 1..Len(all) |-> all[i].value]],
               <<layout_id>> \o Flatten([i \in 1..Len(all) |-> all[i].fetched]),
               Flatten([i \in 1..Len(all) |-> all[i].rendered]))

\* the keys of a fields mapping in iteration order
items(fields) == SelectSeq(FieldOrder, LAMBDA key : key \in DOMAIN fields)

\* one step of the pageGeneral loop: the calls made for one (key, value) pair
general_item(key, value) ==
    IF key = "component_hero" THEN <<get_hero_data(value)>>
    ELSE IF key = "body" THEN <<get_text_data(value)>>
    ELSE IF key = "layout_callout" THEN <<get_callout_data(value)>>
    ELSE <<>>

\* one step of the pageVersatile loop
versatile_item(item) ==
    LET content_type == cms[item].content_type
    IN  IF content_type = "componentHero" THEN <<get_hero_data(item)>>
        ELSE IF content_type = "layoutCallout" THEN <<get_callout_data(item)>>
        ELSE <<>>

\* one step of the pageHome loop
home_item(item) ==
    LET content_type == cms[item].content_type
    IN  IF content_type = "componentHero" THEN <<get_hero_data(item)>>
        ELSE IF content_type = "componentSectionHeading"
        THEN <<get_section_heading_data(item)>>
        ELSE IF content_type = "layoutCallout" THEN <<get_callout_data(item)>>
        ELSE IF content_type = "layout2Cards" THEN <<get_card_layout_data(item)>>
        ELSE IF content_type = "layout3Cards" THEN <<get_card_layout_data(item)>>
        ELSE IF content_type = "layout5Cards" THEN <<get_card_layout_data(item)>>
        ELSE <<>>

\* entries.append over the calls of a loop, stopping at the first that raises
RECURSIVE append_all(_, _)
append_all(calls, acc) ==
    IF calls = <<>> THEN acc
    ELSE LET call == Head(calls)
             fetched == acc.fetched \o call.fetched
             rendered == acc.rendered \o call.rendered
         IN  IF call.raised THEN Raise(call.value, fetched, rendered)
             ELSE append_all(Tail(calls),
                             Return(Append(acc.value, call.value), fetched, rendered))

\* the dispatch of get_content on the page type
page_entries(page_type, fields) ==
    LET keys == items(fields)
        content == Get(fields, "content")
        calls ==
            IF page_type = "pageGeneral"
            THEN Flatten([i \in 1..Len(keys) |-> general_item(keys[i], fields[keys[i]])])
            ELSE IF page_type = "pageVersatile"
            THEN Flatten([i \in 1..Len(content) |-> versatile_item(content[i])])
            ELSE IF page_type = "pageHome"
            THEN Flatten([i \in 1..Len(content) |-> home_item(content[i])])
            ELSE <<>>
    IN  append_all(calls, Return(<<>>, <<>>, <<>>))

\* obj[key] raises TypeError when obj is a str and key is not an integer
getitem_raises(obj, key) == obj \in STRING

get_content(page_id) ==
    LET page_data == get_page_data(page_id)
        fields == page_data.value["fields"]
    IN  IF getitem_raises(page_id, "page_type")
        THEN Raise("TypeError", page_data.fetched, <<>>)
        ELSE LET page_type == page_id["page_type"]
                 entries == page_entries(page_type, fields)
             IN  IF entries.raised
                 THEN Raise(entries.value, page_data.fetched \o entries.fetched,
                            entries.rendered)
                 ELSE Return([page_type |-> page_type,
                              info |-> page_data.value["info"],
                              entries |-> entries.value],
                             page_data.fetched \o entries.fetched, entries.rendered)

\* --------------------------------------------------------------- the inputs
Locales ==
    {"de", "de-DE", "en-US", "fr", "es", "es-", "es-ES", "es-MX", "es-AR",
     "es-de", "pt-BR", "e", ""}

AspectInputs == {"1:1", "3:2", "16:9", "4:3", "", None}

WidthInputs == (-MaxWidth..MaxWidth) \cup {CARD_WIDTH, LARGE_CARD_WIDTH, 2500}

ImageInputs == {"//images.ctfassets.net/card1.jpg"}

ImageWidthInputs == (0..MaxWidth) \cup {CARD_WIDTH, LARGE_CARD_WIDTH}

ProductInputs == DOMAIN PRODUCT_THEMES \cup {"Firefox Focus", "firefox", "", None}

LayoutInputs == DOMAIN LAYOUT_CLASS \cup {"layout6Cards", "layoutCallout", "", None}

WidthLabelInputs == DOMAIN WIDTHS \cup {"Huge", "medium", "", None}

ThemeInputs == {"Dark", "Light", "dark", "DARK", "", None}

DocumentInputs == {"docPageBody", "docCardOne", None}

HeroIds == {"hero1", "hero2"}

CalloutIds == {"callout1", "callout2"}

CardAspectInputs == {"1:1", "16:9", "4:3", None}

CtaInputs == {"cta1", None}

HeadingIds == {"heading1"}

LargeCardIds == {"largeCard1"}

LayoutIds == {"layout1"}

EntryIdInputs == {"cta1", "layout1"}

\* ----------------------------------------------------------------- actions
\* the CMS holds the fixed entries and one card layout
Init ==
    /\ \E tag \in LayoutTags, aspect \in LayoutAspects, cards \in CardSeqs(MaxCards) :
            cms = FixedEntries @@ ("layout1" :> LayoutEntry(tag, aspect, cards))
    /\ op = "init"
    /\ args = <<>>
    /\ result = Return(None, <<>>, <<>>)

\* one CMS content, for the helpers that never read it
InitHelpers ==
    /\ cms = FixedEntries @@ ("layout1" :> LayoutEntry("layout3Cards", "3:2", <<"card1">>))
    /\ op = "init"
    /\ args = <<>>
    /\ result = Return(None, <<>>, <<>>)

ContentfulLocale ==
    \E locale \in Locales :
        /\ op' = "contentful_locale"
        /\ args' = <<locale>>
        /\ result' = Return(contentful_locale(locale), <<>>, <<>>)
        /\ UNCHANGED cms

GetHeight ==
    \E width \in WidthInputs, aspect \in AspectInputs :
        /\ op' = "_get_height"
        /\ args' = <<width, aspect>>
        /\ result' = Return(_get_height(width, aspect), <<>>, <<>>)
        /\ UNCHANGED cms

GetImageUrl ==
    \E image \in ImageInputs, width \in ImageWidthInputs, aspect \in AspectInputs :
        /\ op' = "_get_image_url"
        /\ args' = <<image, width, aspect>>
        /\ result' = Return(_get_image_url(image, width, aspect), <<>>, <<>>)
        /\ UNCHANGED cms

GetProductClass ==
    \E product \in ProductInputs :
        /\ op' = "_get_product_class"
        /\ args' = <<product>>
        /\ result' = Return(_get_product_class(product), <<>>, <<>>)
        /\ UNCHANGED cms

GetLayoutClass ==
    \E layout \in LayoutInputs :
        /\ op' = "_get_layout_class"
        /\ args' = <<layout>>
        /\ result' = Return(_get_layout_class(layout), <<>>, <<>>)
        /\ UNCHANGED cms

GetAspectRatioClass ==
    \E aspect_ratio \in AspectInputs :
        /\ op' = "_get_aspect_ratio_class"
        /\ args' = <<aspect_ratio>>
        /\ result' = Return(_get_aspect_ratio_class(aspect_ratio), <<>>, <<>>)
        /\ UNCHANGED cms

GetWidthClass ==
    \E width \in WidthLabelInputs :
        /\ op' = "_get_width_class"
        /\ args' = <<width>>
        /\ result' = Return(_get_width_class(width), <<>>, <<>>)
        /\ UNCHANGED cms

GetThemeClass ==
    \E theme \in ThemeInputs :
        /\ op' = "_get_theme_class"
        /\ args' = <<theme>>
        /\ result' = Return(_get_theme_class(theme), <<>>, <<>>)
        /\ UNCHANGED cms

GetAllPageData ==
    /\ op' = "get_all_page_data"
    /\ args' = <<>>
    /\ result' = get_all_page_data
    /\ UNCHANGED cms

GetPageData ==
    \E page_id \in PageIds :
        /\ op' = "get_page_data"
        /\ args' = <<page_id>>
        /\ result' = get_page_data(page_id)
        /\ UNCHANGED cms

GetPageType ==
    \E page_id \in PageIds :
        /\ op' = "get_page_type"
        /\ args' = <<page_id>>
        /\ result' = get_page_type(page_id)
        /\ UNCHANGED cms

GetEntryData ==
    \E page_id \in PageIds :
        /\ op' = "get_entry_data"
        /\ args' = <<page_id>>
        /\ result' = get_entry_data(page_id)
        /\ UNCHANGED cms

GetEntryById ==
    \E entry_id \in EntryIdInputs :
        /\ op' = "get_entry_by_id"
        /\ args' = <<entry_id>>
        /\ result' = get_entry_by_id(entry_id)
        /\ UNCHANGED cms

GetContent ==
    \E page_id \in PageIds :
        /\ op' = "get_content"
        /\ args' = <<page_id>>
        /\ result' = get_content(page_id)
        /\ UNCHANGED cms

GetTextData ==
    \E value \in DocumentInputs :
        /\ op' = "get_text_data"
        /\ args' = <<value>>
        /\ result' = get_text_data(value)
        /\ UNCHANGED cms

GetHeroData ==
    \E hero_id \in HeroIds :
        /\ op' = "get_hero_data"
        /\ args' = <<hero_id>>
        /\ result' = get_hero_data(hero_id)
        /\ UNCHANGED cms

GetSectionHeadingData ==
    \E heading_id \in HeadingIds :
        /\ op' = "get_section_heading_data"
        /\ args' = <<heading_id>>
        /\ result' = get_section_heading_data(heading_id)
        /\ UNCHANGED cms

GetCalloutData ==
    \E callout_id \in CalloutIds :
        /\ op' = "get_callout_data"
        /\ args' = <<callout_id>>
        /\ result' = get_callout_data(callout_id)
        /\ UNCHANGED cms

GetCardData ==
    \E card_id \in CardIds, aspect_ratio \in CardAspectInputs :
        /\ op' = "get_card_data"
        /\ args' = <<card_id, aspect_ratio>>
        /\ result' = get_card_data(card_id, aspect_ratio)
        /\ UNCHANGED cms

GetLargeCardData ==
    \E card_layout_id \in LargeCardIds, card_id \in CardIds :
        /\ op' = "get_large_card_data"
        /\ args' = <<card_layout_id, card_id>>
        /\ result' = get_large_card_data(card_layout_id, card_id)
        /\ UNCHANGED cms

GetCardLayoutData ==
    \E layout_id \in LayoutIds :
        /\ op' = "get_card_layout_data"
        /\ args' = <<layout_id>>
        /\ result' = get_card_layout_data(layout_id)
        /\ UNCHANGED cms

GetCtaData ==
    \E cta \in CtaInputs :
        /\ op' = "get_cta_data"
        /\ args' = <<cta>>
        /\ result' = get_cta_data(cta)
        /\ UNCHANGED cms

NextHelpers ==
    \/ ContentfulLocale
    \/ GetHeight
    \/ GetImageUrl
    \/ GetProductClass
    \/ GetLayoutClass
    \/ GetAspectRatioClass
    \/ GetWidthClass
    \/ GetThemeClass

Next ==
    \/ GetAllPageData
    \/ GetPageData
    \/ GetPageType
    \/ GetEntryData
    \/ GetEntryById
    \/ GetContent
    \/ GetTextData
    \/ GetHeroData
    \/ GetSectionHeadingData
    \/ GetCalloutData
    \/ GetCardData
    \/ GetLargeCardData
    \/ GetCardLayoutData
    \/ GetCtaData

Spec == Init /\ [][Next]_vars

SpecHelpers == InitHelpers /\ [][NextHelpers]_vars

\* ------------------------------------------------------------------ claims
\* the entry a call was made on
Target == cms[args[1]]

\* C1 (as stated): for a pageHome or pageVersatile page, get_content returns a
\* mapping whose 'entries' are the component outputs of the recognized items of
\* the page's 'content', in source order, the others skipped; a pageHome of
\* [componentHero, layout3Cards] yields [hero, cardLayout] with layout_class
\* 'mzp-l-card-third'.
C1_Recognized(page_type) ==
    IF page_type = "pageHome"
    THEN {"componentHero", "componentSectionHeading", "layoutCallout",
          "layout2Cards", "layout3Cards", "layout5Cards"}
    ELSE {"componentHero", "layoutCallout"}

C1_Component(tag) ==
    IF tag = "componentHero" THEN "hero"
    ELSE IF tag = "componentSectionHeading" THEN "sectionHeading"
    ELSE IF tag = "layoutCallout" THEN "callout"
    ELSE "cardLayout"

C1_EntriesInSourceOrder ==
    (op = "get_content" /\ Target.content_type \in {"pageHome", "pageVersatile"}) =>
        LET kept == SelectSeq(Target.fields["content"],
                        LAMBDA item :
                            cms[item].content_type \in C1_Recognized(Target.content_type))
        IN  /\ ~result.raised
            /\ Len(result.value["entries"]) = Len(kept)
            /\ \A i \in 1..Len(kept) :
                LET out == result.value["entries"][i]
                    tag == cms[kept[i]].content_type
                IN  /\ out["component"] = C1_Component(tag)
                    /\ tag = "layout3Cards" => out["layout_class"] = "mzp-l-card-third"

\* C2 (as stated): for a page whose content-type tag is none of pageGeneral,
\* pageVersatile, pageHome, get_content does not fail and returns
\* {page_type, info, entries} with entries empty.
C2_UnrecognizedPageEmpty ==
    (op = "get_content"
        /\ Target.content_type \notin {"pageGeneral", "pageVersatile", "pageHome"}) =>
        /\ ~result.raised
        /\ DOMAIN result.value = {"page_type", "info", "entries"}
        /\ result.value["entries"] = <<>>

\* C3: get_card_layout_data of a layout5Cards entry returns 'cards' whose first
\* element is the large card (component 'large_card', resolved through layout ->
\* large_card -> card) followed by one card per item of 'content' in source
\* order; for any other layout tag 'cards' holds exactly the 'content' cards in
\* source order and no large card.
C3_CardsOrder ==
    op = "get_card_layout_data" =>
        LET content == Target.fields["content"]
            cards == result.value["cards"]
            five == Target.content_type = "layout5Cards"
            shift == IF five THEN 1 ELSE 0
            large_cfg == cms[Target.fields["large_card"]]
            large == cms[large_cfg.fields["card"]]
        IN  /\ ~result.raised
            /\ Len(cards) = Len(content) + shift
            /\ five =>
                /\ cards[1]["component"] = "large_card"
                /\ cards[1]["heading"] = large.fields["heading"]
                /\ cards[1]["image_url"]["url"]["base"] = large_cfg.fields["image"]
                /\ cards[1]["image_url"]["url"]["w"] = 1860
            /\ \A i \in 1..Len(content) :
                /\ cards[i + shift]["component"] = "card"
                /\ cards[i + shift]["heading"] = cms[content[i]].fields["heading"]
                /\ cards[i + shift]["image_url"]["url"]["base"] =
                       cms[content[i]].fields["image"]

C3_Witness ==
    /\ op = "get_card_layout_data"
    /\ Target.content_type = "layout5Cards"
    /\ Target.fields["content"] = <<"card2", "card1">>
    /\ ~result.raised
    /\ Len(result.value["cards"]) = 3

\* the source rich-text body of the entry a callout or card call reads
C4_Body ==
    IF op = "get_callout_data"
    THEN Get(cms[Target.fields["component_callout"]].fields, "body")
    ELSE IF op = "get_card_data" THEN Get(Target.fields, "body")
    ELSE args[1]

\* C4 (as stated): in get_callout_data, get_card_data and get_text_data, when the
\* source rich-text body is absent or null the output's 'body' is the empty
\* string and the renderer is never invoked on the null document.
C4_NullBodyAllThree ==
    (op \in {"get_callout_data", "get_card_data", "get_text_data"} /\ C4_Body = None) =>
        /\ ~result.raised
        /\ result.value["body"] = ""
        /\ \A i \in 1..Len(result.rendered) : result.rendered[i] # None

\* C4 (amended): in get_callout_data and get_card_data, when the source body is
\* absent or null the output's 'body' is the empty string and the renderer is
\* not invoked; get_text_data has no such guard: it hands its argument to the
\* renderer even when the argument is null.
C4_NullBodyGuarded ==
    /\ (op \in {"get_callout_data", "get_card_data"} /\ C4_Body = None) =>
        /\ ~result.raised
        /\ result.value["body"] = ""
        /\ result.rendered = <<>>
    /\ op = "get_text_data" => result.rendered = <<args[1]>>

C4_Witness ==
    /\ op = "get_callout_data"
    /\ C4_Body = None
    /\ ~result.raised
    /\ result.value["body"] = ""

\* C5: get_cta_data of an absent reference returns exactly {'include_cta': False}
\* and makes no CMS lookup; of a present reference it returns include_cta True
\* with the referenced entry's label and action and the fixed size 'mzp-t-xl'
\* and theme 'mzp-t-primary'.
C5_CtaData ==
    op = "get_cta_data" =>
        /\ ~result.raised
        /\ args[1] = None =>
            /\ result.value = [include_cta |-> FALSE]
            /\ result.fetched = <<>>
        /\ args[1] # None =>
            /\ result.value["include_cta"] = TRUE
            /\ result.value["label"] = Target.fields["label"]
            /\ result.value["action"] = Target.fields["action"]
            /\ result.value["size"] = "mzp-t-xl"
            /\ result.value["theme"] = "mzp-t-primary"
            /\ result.fetched = <<args[1]>>

C5_Witness ==
    /\ op = "get_cta_data"
    /\ args[1] = None
    /\ result.value = [include_cta |-> FALSE]

\* the values a 'component' discriminator takes
C6_Tags ==
    {"text", "hero", "sectionHeading", "callout", "card", "large_card", "cardLayout"}
        \cup {cms[id].content_type : id \in {"cta1"}}

C6_Tagged(out) == "component" \in DOMAIN out /\ out["component"] \in C6_Tags

C6_Extractions ==
    {"get_text_data", "get_hero_data", "get_section_heading_data", "get_callout_data",
     "get_card_data", "get_large_card_data", "get_card_layout_data"}

C6_Nested ==
    /\ (op = "get_card_layout_data" /\ ~result.raised) =>
        \A i \in 1..Len(result.value["cards"]) : C6_Tagged(result.value["cards"][i])
    /\ (op = "get_content" /\ ~result.raised) =>
        \A i \in 1..Len(result.value["entries"]) : C6_Tagged(result.value["entries"][i])

\* C6 (as stated): every mapping returned by get_text_data, get_hero_data,
\* get_section_heading_data, get_callout_data, get_card_data, get_large_card_data,
\* get_card_layout_data and get_cta_data, every element of a cardLayout's 'cards'
\* and every element of get_content's 'entries' has a 'component' key whose value
\* is one of the component tags.
C6_EveryOutputTagged ==
    /\ (op \in C6_Extractions \cup {"get_cta_data"} /\ ~result.raised) =>
        C6_Tagged(result.value)
    /\ C6_Nested

\* C6 (amended): the same, except that get_cta_data carries the 'component' key
\* only when its reference is present; for an absent reference it returns
\* {'include_cta': False}, which has no 'component' key.
C6_OutputTaggedUnlessNoCta ==
    /\ (op \in C6_Extractions /\ ~result.raised) => C6_Tagged(result.value)
    /\ (op = "get_cta_data" /\ args[1] # None) =>
        ~result.raised /\ C6_Tagged(result.value)
    /\ (op = "get_cta_data" /\ args[1] = None) =>
        ~result.raised /\ "component" \notin DOMAIN result.value
    /\ C6_Nested

C6_Witness ==
    /\ op = "get_card_layout_data"
    /\ Target.content_type = "layout5Cards"
    /\ ~result.raised
    /\ Len(result.value["cards"]) = 3
    /\ result.value["cards"][1]["component"] = "large_card"

\* |x|
C7_Abs(x) == IF x < 0 THEN -x ELSE x

\* h is round(width * m) for the multiplier m = num / 10000: an integer nearest
\* to the product, the even one when two are equally near
C7_IsRounded(h, width, num) ==
    /\ 2 * C7_Abs(10000 * h - width * num) <= 10000
    /\ 2 * C7_Abs(10000 * h - width * num) = 10000 => h % 2 = 0

C7_Multiplier(aspect) ==
    IF aspect = "1:1" THEN 10000
    ELSE IF aspect = "3:2" THEN 6666
    ELSE IF aspect = "16:9" THEN 5625
    ELSE 0

C7_Height(h, width, aspect) ==
    /\ aspect \in {"1:1", "3:2", "16:9"} => C7_IsRounded(h, width, C7_Multiplier(aspect))
    /\ aspect \notin {"1:1", "3:2", "16:9"} => h = 0
    /\ (width = 800 /\ aspect = "16:9") => h = 450

\* C7: _get_height(width, aspect) is round(width * m) with m = 1 for '1:1',
\* 0.6666 for '3:2', 0.5625 for '16:9', and 0 for any other aspect tag; width
\* 800 at '16:9' gives 450; _get_image_url passes this height with w=width,
\* fit='fill', f='faces' and prefixes the result with 'https:'.
C7_HeightAndImageUrl ==
    /\ op = "_get_height" =>
        ~result.raised /\ C7_Height(result.value, args[1], args[2])
    /\ op = "_get_image_url" =>
        /\ ~result.raised
        /\ result.value["prefix"] = "https:"
        /\ result.value["url"]["base"] = args[1]
        /\ result.value["url"]["w"] = args[2]
        /\ C7_Height(result.value["url"]["h"], args[2], args[3])
        /\ result.value["url"]["fit"] = "fill"
        /\ result.value["url"]["f"] = "faces"

C7_Witness ==
    /\ op = "_get_image_url"
    /\ args[2] = 800
    /\ args[3] = "16:9"
    /\ result.value["url"]["h"] = 450
    /\ result.value["prefix"] = "https:"

\* C8 (as stated): get_all_page_data returns one element for every entry of the
\* page content type, each a projection carrying only the page's summary 'info'
\* and no raw field mapping.
C8_OnlyInfo ==
    op = "get_all_page_data" =>
        /\ ~result.raised
        /\ Len(result.value) =
               Cardinality({id \in DOMAIN cms : cms[id].content_type = "pageVersatile"})
        /\ \A i \in 1..Len(result.value) :
            /\ "info" \in DOMAIN result.value[i]
            /\ "fields" \notin DOMAIN result.value[i]

\* C8 (amended): get_all_page_data returns one element for every entry of
\* content type pageVersatile, in the CMS's order, and each element is that
\* entry's get_page_data mapping: its page_type, its summary 'info' (title,
\* blurb, slug defaulting to 'home', image only when the entry has a preview
\* image) and also its raw 'fields' mapping.
C8_PageDataWithFields ==
    op = "get_all_page_data" =>
        LET ids == SelectSeq(EntryOrder, LAMBDA id : cms[id].content_type = "pageVersatile")
        IN  /\ ~result.raised
            /\ Len(result.value) = Len(ids)
            /\ \A i \in 1..Len(ids) :
                LET e == result.value[i]
                    f == cms[ids[i]].fields
                IN  /\ DOMAIN e = {"page_type", "info", "fields"}
                    /\ e["page_type"] = "pageVersatile"
                    /\ e["fields"] = f
                    /\ e["info"]["title"] = f["preview_title"]
                    /\ e["info"]["blurb"] = f["preview_blurb"]
                    /\ e["info"]["slug"] = IF "slug" \in DOMAIN f THEN f["slug"] ELSE "home"
                    /\ "image" \in DOMAIN e["info"] <=> "preview_image" \in DOMAIN f
                    /\ DOMAIN e["info"] \subseteq {"title", "blurb", "slug", "image"}

C8_Witness ==
    /\ op = "get_all_page_data"
    /\ ~result.raised
    /\ Len(result.value) = 2
    /\ "fields" \in DOMAIN result.value[1]
    /\ result.value[2]["info"]["slug"] = "home"

C9_ProductClass(product) ==
    IF product = "Firefox" THEN "mzp-t-product-firefox"
    ELSE IF product = "Firefox Beta" THEN "mzp-t-product-beta"
    ELSE IF product = "Firefox Developer" THEN "mzp-t-product-developer"
    ELSE IF product = "Firefox Nightly" THEN "mzp-t-product-nightly"
    ELSE "mzp-t-product-"

C9_AspectRatioClass(aspect_ratio) ==
    IF aspect_ratio = "1:1" THEN "mzp-has-aspect-1-1"
    ELSE IF aspect_ratio = "3:2" THEN "mzp-has-aspect-3-2"
    ELSE IF aspect_ratio = "16:9" THEN "mzp-has-aspect-16-9"
    ELSE "mzp-has-aspect-"

C9_WidthClass(width) ==
    IF width = "Extra Small" THEN "mzp-t-content-xs"
    ELSE IF width = "Small" THEN "mzp-t-content-sm"
    ELSE IF width = "Medium" THEN "mzp-t-content-md"
    ELSE IF width = "Large" THEN "mzp-t-content-lg"
    ELSE IF width = "Extra Large" THEN "mzp-t-content-xl"
    ELSE "mzp-t-content-"

C9_LayoutClass(layout) ==
    IF layout = "layout2Cards" THEN "mzp-l-card-half"
    ELSE IF layout = "layout3Cards" THEN "mzp-l-card-third"
    ELSE IF layout = "layout4Cards" THEN "mzp-l-card-quarter"
    ELSE IF layout = "layout5Cards" THEN "mzp-l-card-hero"
    ELSE ""

\* C9: a style helper given an input that is no key of its table returns the
\* empty default ('mzp-has-aspect-', 'mzp-t-product-', 'mzp-t-content-', '' for
\* the layout class, '' for every theme but 'Dark', which gives 'mzp-t-dark') and
\* never raises; for a mapped key it returns the prefix followed by the slug.
C9_StyleHelpers ==
    /\ op \in {"_get_product_class", "_get_aspect_ratio_class", "_get_width_class",
               "_get_layout_class", "_get_theme_class"} => ~result.raised
    /\ op = "_get_product_class" => result.value = C9_ProductClass(args[1])
    /\ op = "_get_aspect_ratio_class" => result.value = C9_AspectRatioClass(args[1])
    /\ op = "_get_width_class" => result.value = C9_WidthClass(args[1])
    /\ op = "_get_layout_class" => result.value = C9_LayoutClass(args[1])
    /\ op = "_get_theme_class" =>
        result.value = IF args[1] = "Dark" THEN "mzp-t-dark" ELSE ""

C9_Witness ==
    /\ op = "_get_width_class"
    /\ args[1] = "Huge"
    /\ ~result.raised
    /\ result.value = "mzp-t-content-"

\* the locales among the inputs that start with 'es-'
C10_Spanish == {"es-", "es-ES", "es-MX", "es-AR", "es-de"}

\* C10: contentful_locale returns 'es' for every locale starting with 'es-',
\* otherwise 'de-DE' for 'de', otherwise its input unchanged.
C10_LocaleMap ==
    op = "contentful_locale" =>
        /\ ~result.raised
        /\ args[1] \in C10_Spanish => result.value = "es"
        /\ (args[1] \notin C10_Spanish /\ args[1] = "de") => result.value = "de-DE"
        /\ (args[1] \notin C10_Spanish /\ args[1] # "de") => result.value = args[1]

C10_Witness ==
    /\ op = "contentful_locale"
    /\ args[1] = "es-MX"
    /\ result.value = "es"

====
